---- MODULE Spec2Model ----
(***************************************************************************)
(* Model of resetdb.py, the AU Archive reset script.                       *)
(*                                                                         *)
(* A path is a sequence of segments, as pathlib keeps it; it is absolute   *)
(* when its first segment is an anchor.  The filesystem is the set of the  *)
(* absolute paths of the entries that exist; a relative path handed to an  *)
(* OS call is resolved against the working directory by the OS.            *)
(***************************************************************************)
EXTENDS Naturals, Sequences, FiniteSets, TLC

VARIABLES
    platform,      \* platform.system()
    env,           \* os.environ, restricted to APPDATA
    archive_path,  \* args.archive (NoArchive when the flag is not given)
    force,         \* args.force
    db_only,       \* args.db_only
    fs,            \* the filesystem: absolute paths of the existing entries
    fs0,           \* the filesystem when the process started
    pc,            \* position of the run in main() / reset_database()
    printed,       \* paths printed so far in the removal plan
    attempted,     \* calls made so far: <<[name, path]>>, in call order
    response,      \* what input() returned at the confirmation prompt
    refused,       \* entries the OS refuses to delete
    walk,          \* order in which the OS lists the entries of a directory
    ret,           \* return value of the latest remove_file / remove_dir call
    report,        \* what the latest call printed: removed / failed / not found
    target,        \* primitive-level runs: the path handed to the primitive
    snap           \* primitive-level runs: the filesystem before the latest
                   \* call, and whether the call before it failed

vars == << platform, env, archive_path, force, db_only, fs, fs0, pc, printed,
           attempted, response, refused, walk, ret, report, target, snap >>

\* How many entries the operating system may refuse to delete in one run.
MaxFailures == 1

\* How many times in a row a primitive-level run calls the primitive.
MaxCalls == 2

NoArchive == << "<none>" >>
NoResponse == << "<no prompt>" >>
NoTarget == << "<no target>" >>

-----------------------------------------------------------------------------
(* pathlib *)

Anchors == { "/", "C:\\" }

IsAbsolute(p) == Len(p) > 0 /\ p[1] \in Anchors

\* p / seg
Join(p, seg) == Append(p, seg)

\* p.name
Name(p) == p[Len(p)]

\* p.parent
Parent(p) == SubSeq(p, 1, Len(p) - 1)

\* Path.home() and Path.cwd() of the host
Home(sys) == IF sys = "Windows" THEN << "C:\\", "Users", "user" >>
                                ELSE << "/", "home", "user" >>

Cwd(sys) == IF sys = "Windows" THEN << "C:\\", "proj" >>
                               ELSE << "/", "proj" >>

\* what the OS does with a path it is handed
Resolve(sys, p) == IF IsAbsolute(p) THEN p ELSE Cwd(sys) \o p

\* q lies strictly below p
Below(q, p) == Len(q) > Len(p) /\ SubSeq(q, 1, Len(p)) = p

\* Path.exists()
Exists(f, sys, p) == Resolve(sys, p) \in f

\* the layout fixes which names are plain files; every other entry is a directory
FileNames == { "au-archive.db", "au-archive.db-wal", "au-archive.db-shm",
               "config.json", "old.bak", "notes.txt", "t1.jpg" }

IsFile(p) == Len(p) > 0 /\ Name(p) \in FileNames

\* os.environ.get(key, default)
EnvGet(e, key, default) == IF key \in DOMAIN e THEN e[key] ELSE default

-----------------------------------------------------------------------------
(* path resolution *)

get_config_dir(sys, e) ==
    IF sys = "Windows"
    THEN Join(Join(EnvGet(e, "APPDATA", << >>), "@au-archive"), "desktop")
    ELSE IF sys = "Darwin"
    THEN Join(Join(Join(Join(Home(sys), "Library"), "Application Support"),
                   "@au-archive"), "desktop")
    ELSE Join(Join(Join(Home(sys), ".config"), "@au-archive"), "desktop")

get_default_db_path(sys, e) ==
    Join(Join(get_config_dir(sys, e), "data"), "au-archive.db")

get_bootstrap_config_path(sys, e) == Join(get_config_dir(sys, e), "config.json")

\* the dev data directory, or << >> for None
get_dev_data_dir(f, sys) ==
    LET dev_data == Join(Join(Join(Cwd(sys), "packages"), "desktop"), "data")
    IN  IF dev_data \in f \/ Parent(dev_data) \in f THEN dev_data ELSE << >>

\* f"{db_path.name}{suffix}" next to the database
Sidecar(db, suffix) == Join(Parent(db), Name(db) \o suffix)

-----------------------------------------------------------------------------
(* the OS deletion calls.  The OS refuses to delete the entries in `no`      *)
(* (permission denied, file in use); a directory walk visits the entries of  *)
(* a directory in the order `w` ranks their names.  Each call yields         *)
(* [fs: the filesystem afterwards, ok: no exception was raised].             *)

Descendants(f, p) == { q \in f : Below(q, p) }

\* position of a name in the directory order
Rank(w, name) == CHOOSE i \in 1..Len(w) : w[i] = name

\* a bottom-up walk deletes q before r: r lies above q, or they part ways at a
\* segment where q's side is listed first
Before(w, q, r) ==
    \/ Below(q, r)
    \/ /\ ~Below(r, q)
       /\ q # r
       /\ LET i == CHOOSE k \in 1..Len(q) :
                     /\ k <= Len(r)
                     /\ q[k] # r[k]
                     /\ \A j \in 1..(k - 1) : q[j] = r[j]
          IN  Rank(w, q[i]) < Rank(w, r[i])

\* Path.unlink(): raises on a directory and on a refused file
Unlink(f, p, no) ==
    IF ~IsFile(p) \/ p \in no
    THEN [fs |-> f, ok |-> FALSE]
    ELSE [fs |-> f \ {p}, ok |-> TRUE]

\* shutil.rmtree(): raises on a plain file; otherwise deletes the entries below
\* p bottom-up, then p, and raises at the first entry the OS refuses
Rmtree(f, p, no, w) ==
    LET tree == {p} \cup Descendants(f, p)
        stop == tree \cap no
    IN  IF IsFile(p) THEN [fs |-> f, ok |-> FALSE]
        ELSE IF stop = {} THEN [fs |-> f \ tree, ok |-> TRUE]
        ELSE [fs |-> f \ { q \in tree : \A r \in stop : Before(w, q, r) },
              ok |-> FALSE]

\* Path.rmdir(): deletes an empty directory only
Rmdir(f, p, no) ==
    IF IsFile(p) \/ Descendants(f, p) # {} \/ p \in no
    THEN [fs |-> f, ok |-> FALSE]
    ELSE [fs |-> f \ {p}, ok |-> TRUE]

\* any(p.iterdir())
HasEntries(f, p) == Descendants(f, p) # {}

-----------------------------------------------------------------------------
(* removal primitives: the result of one call,                              *)
(* [fs, ret: the value returned, report: the line printed,                  *)
(*  failed: the OS raised, raised: the exception left the primitive]        *)

Outcome(f, r, msg, fl, up) ==
    [fs |-> f, ret |-> r, report |-> msg, failed |-> fl, raised |-> up]

\* remove_file without its try/except
remove_file_uncaught(f, sys, path, no) ==
    IF Exists(f, sys, path)
    THEN LET o == Unlink(f, Resolve(sys, path), no)
         IN  IF o.ok THEN Outcome(o.fs, TRUE, "removed", FALSE, FALSE)
                     ELSE Outcome(o.fs, FALSE, "none", TRUE, TRUE)
    ELSE Outcome(f, FALSE, "not found", FALSE, FALSE)

\* remove_file that unlinks without looking first whether the path exists:
\* unlink() of an absent path raises, and the except clause reports a failure
remove_file_unchecked(f, sys, path, no) ==
    IF Exists(f, sys, path)
    THEN LET o == Unlink(f, Resolve(sys, path), no)
         IN  IF o.ok THEN Outcome(o.fs, TRUE, "removed", FALSE, FALSE)
                     ELSE Outcome(o.fs, FALSE, "failed", TRUE, FALSE)
    ELSE Outcome(f, FALSE, "failed", TRUE, FALSE)

remove_file(f, sys, path, no) ==
    IF Exists(f, sys, path)
    THEN LET o == Unlink(f, Resolve(sys, path), no)
         IN  IF o.ok THEN Outcome(o.fs, TRUE, "removed", FALSE, FALSE)
                     ELSE Outcome(o.fs, FALSE, "failed", TRUE, FALSE)
    ELSE Outcome(f, FALSE, "not found", FALSE, FALSE)

\* remove_dir that deletes the directory's parent
remove_dir_parent(f, sys, path, no, w) ==
    IF Exists(f, sys, path)
    THEN LET o == Rmtree(f, Parent(Resolve(sys, path)), no, w)
         IN  IF o.ok THEN Outcome(o.fs, TRUE, "removed", FALSE, FALSE)
                     ELSE Outcome(o.fs, FALSE, "failed", TRUE, FALSE)
    ELSE Outcome(f, FALSE, "not found", FALSE, FALSE)

\* remove_dir that deletes with Path.rmdir()
remove_dir_flat(f, sys, path, no, w) ==
    IF Exists(f, sys, path)
    THEN LET o == Rmdir(f, Resolve(sys, path), no)
         IN  IF o.ok THEN Outcome(o.fs, TRUE, "removed", FALSE, FALSE)
                     ELSE Outcome(o.fs, FALSE, "failed", TRUE, FALSE)
    ELSE Outcome(f, FALSE, "not found", FALSE, FALSE)

remove_dir(f, sys, path, no, w) ==
    IF Exists(f, sys, path)
    THEN LET o == Rmtree(f, Resolve(sys, path), no, w)
         IN  IF o.ok THEN Outcome(o.fs, TRUE, "removed", FALSE, FALSE)
                     ELSE Outcome(o.fs, FALSE, "failed", TRUE, FALSE)
    ELSE Outcome(f, FALSE, "not found", FALSE, FALSE)

\* lines 140-146 with shutil.rmtree() in the place of rmdir()
remove_data_dir_recursive(f, sys, path, no, w) ==
    LET o == Rmtree(f, Resolve(sys, path), no, w)
    IN  IF o.ok THEN Outcome(o.fs, TRUE, "removed", FALSE, FALSE)
                ELSE Outcome(o.fs, FALSE, "none", TRUE, FALSE)

\* lines 140-146: the data directory goes only if it is empty; an OS error is
\* swallowed by the except clause
remove_data_dir(f, sys, path, no, w) ==
    IF HasEntries(f, Resolve(sys, path))
    THEN Outcome(f, FALSE, "none", FALSE, FALSE)
    ELSE LET o == Rmdir(f, Resolve(sys, path), no)
         IN  IF o.ok THEN Outcome(o.fs, TRUE, "removed", FALSE, FALSE)
                     ELSE Outcome(o.fs, FALSE, "none", TRUE, FALSE)

-----------------------------------------------------------------------------
(* the confirmation prompt: a response is a sequence of characters *)

Whitespace == { " ", "\t", "\n" }

RECURSIVE LStrip(_)
LStrip(s) == IF s # << >> /\ Head(s) \in Whitespace THEN LStrip(Tail(s)) ELSE s

RECURSIVE RStrip(_)
RStrip(s) == IF s # << >> /\ s[Len(s)] \in Whitespace
             THEN RStrip(SubSeq(s, 1, Len(s) - 1)) ELSE s

\* str.strip()
Strip(s) == RStrip(LStrip(s))

LowerOf(c) == CASE c = "Y" -> "y" [] c = "E" -> "e" [] c = "S" -> "s"
                [] c = "N" -> "n" [] c = "O" -> "o" [] OTHER -> c

\* str.lower()
Lower(s) == [i \in 1..Len(s) |-> LowerOf(s[i])]

\* a prompt that takes the empty answer for yes
AffirmativeByDefault(s) == Lower(Strip(s)) \in { << >>, <<"y">>, <<"y", "e", "s">> }

\* response.strip().lower() in ("y", "yes")
Affirmative(s) == Lower(Strip(s)) \in { <<"y">>, <<"y", "e", "s">> }

\* what a user may type at the prompt
Responses == { <<"y">>, <<" ", "Y", "e", "s", "\n">>,
               << >>, <<"n">>, <<"N", "o">>, <<" ">>, <<"y", "e">>, <<"y", " ", "e", "s">> }

-----------------------------------------------------------------------------
(* the locals of main() and reset_database() *)

config_dir == get_config_dir(platform, env)
db_path == get_default_db_path(platform, env)
config_path == get_bootstrap_config_path(platform, env)
data_dir == Join(config_dir, "data")
backups_dir == Join(config_dir, "backups")

\* computed before the first deletion, so on the filesystem the run started with
dev_data_dir == get_dev_data_dir(fs0, platform)
dev_detected == dev_data_dir # << >>
dev_db_path == Join(dev_data_dir, "au-archive.db")

archive_given == archive_path # NoArchive

\* the paths the plan of a full reset prints (lines 97-113)
FullPlan ==
    { db_path, config_path, data_dir, backups_dir }
    \cup (IF dev_detected
          THEN { dev_db_path, Join(dev_data_dir, "config.json"),
                 Join(dev_data_dir, "backups") }
          ELSE {})
    \cup (IF archive_given
          THEN { Join(archive_path, ".thumbnails"), Join(archive_path, ".previews"),
                 Join(archive_path, ".posters") }
          ELSE {})

\* the paths the database-only prompt prints (lines 202-204)
DbOnlyPlan == { db_path } \cup (IF dev_detected THEN { dev_db_path } ELSE {})

-----------------------------------------------------------------------------
(* statement order *)

\* a full reset that clears the backups before the config file
FullResetOrderBackupsFirst ==
    << "rm_db", "rm_backups", "rm_config", "rm_wal", "rm_shm", "rm_data_dir",
       "dev_db", "dev_wal", "dev_shm", "dev_config", "dev_backups",
       "thumbnails", "previews", "posters" >>

\* the removal statements of reset_database(), in source order
FullResetOrder ==
    << "rm_db", "rm_config", "rm_wal", "rm_shm", "rm_data_dir", "rm_backups",
       "dev_db", "dev_wal", "dev_shm", "dev_config", "dev_backups",
       "thumbnails", "previews", "posters" >>

\* a --db-only branch that lacks its `else` and falls through into the full reset
DbOnlyOrderFallsThrough ==
    << "only_db", "only_wal", "only_shm", "only_dev_db", "only_dev_wal",
       "only_dev_shm", "rm_db", "rm_config", "rm_wal", "rm_shm", "rm_data_dir",
       "rm_backups" >>

\* the removal statements of the --db-only branch of main(), in source order
DbOnlyOrder ==
    << "only_db", "only_wal", "only_shm", "only_dev_db", "only_dev_wal",
       "only_dev_shm" >>

DataBlock == { "rm_wal", "rm_shm", "rm_data_dir" }
DevBlock == { "dev_db", "dev_wal", "dev_shm", "dev_config", "dev_backups",
              "only_dev_db", "only_dev_wal", "only_dev_shm" }
ArchiveBlock == { "thumbnails", "previews", "posters" }

\* the if-statement that encloses a step: `if data_dir.exists()` is evaluated
\* on entering its block, `if dev_data_dir` and `if archive_path` are fixed
Entered(step, from, f) ==
    CASE step \in DataBlock -> from \in DataBlock \/ Exists(f, platform, data_dir)
      [] step \in DevBlock -> dev_detected
      [] step \in ArchiveBlock -> archive_given
      [] OTHER -> TRUE

IndexOf(order, step) ==
    IF \E i \in 1..Len(order) : order[i] = step
    THEN CHOOSE i \in 1..Len(order) : order[i] = step
    ELSE 0

\* the statement control reaches after `from` (first one for from = "start")
NextStep(order, from, f) ==
    LET later == { j \in 1..Len(order) :
                     j > IndexOf(order, from) /\ Entered(order[j], from, f) }
    IN  IF later = {} THEN "done"
        ELSE order[CHOOSE j \in later : \A k \in later : j <= k]

\* the directory order of the host: unspecified, but the same from call to call
DirOrder ==
    << "au-archive.db", "au-archive.db-wal", "au-archive.db-shm", "config.json",
       "notes.txt", "old.bak", "t1.jpg", "data", "backups", ".thumbnails",
       ".previews", ".posters", "desktop", "@au-archive", "packages", "archive",
       "media", ".config", "Library", "Application Support", "Roaming", "AppData",
       "user", "home", "Users", "proj", "/", "C:\\" >>

Reverse(w) == [i \in 1..Len(w) |-> w[Len(w) + 1 - i]]

Walks == { DirOrder, Reverse(DirOrder) }

\* what the OS may start refusing when a call reaches for path: nothing, or
\* one more of the entries the call would delete
NewRefusals(f, sys, path) ==
    { {} } \cup
    (IF Cardinality(refused) < MaxFailures
     THEN { {q} : q \in ({Resolve(sys, path)} \cup Descendants(f, Resolve(sys, path)))
                         \cap (f \ refused) }
     ELSE {})

\* the primitive a statement calls
Primitive(kind, f, sys, path, no, w) ==
    CASE kind = "file" -> remove_file(f, sys, path, no)
      [] kind = "dir" -> remove_dir(f, sys, path, no, w)
      [] kind = "data_dir" -> remove_data_dir(f, sys, path, no, w)

-----------------------------------------------------------------------------
(* initial states: the command line, the host and the files on disk *)

Platforms == { "Windows", "Darwin", "Linux" }

AppData == << "C:\\", "Users", "user", "AppData", "Roaming" >>

\* APPDATA exists on Windows only, and may be unset there
Environments(sys) ==
    IF sys = "Windows" THEN { [k \in {"APPDATA"} |-> AppData], [k \in {} |-> << >>] }
    ELSE { [k \in {} |-> << >>] }

\* --archive: absent, a relative path, an absolute path, the data directory itself
ArchiveArgs(sys, e) ==
    { NoArchive, << "archive" >>, Join(Join(Home(sys), "media"), "archive"),
      Join(get_config_dir(sys, e), "data") }

\* every path together with the directories above it
WithParents(S) ==
    UNION { { SubSeq(p, 1, n) : n \in 1..Len(p) } : p \in S }

\* what may lie in the config directory b when the run starts
BaseFixtures(b) ==
    LET d == Join(b, "data")
    IN  { {},
          { Join(d, "au-archive.db") },
          { Join(b, "config.json"), Join(d, "au-archive.db"),
            Join(d, "au-archive.db-wal"), Join(Join(b, "backups"), "old.bak") },
          { Join(b, "config.json"), Join(d, "au-archive.db"),
            Join(d, "au-archive.db-wal"), Join(d, "au-archive.db-shm"),
            Join(d, "notes.txt"), Join(Join(b, "backups"), "old.bak") },
          { Join(d, "notes.txt"), Join(b, "backups") } }

\* what may lie under the working directory c
DevFixtures(c) ==
    LET d == Join(Join(Join(c, "packages"), "desktop"), "data")
    IN  { {}, { Parent(d) },
          { Join(d, "au-archive.db"), Join(d, "au-archive.db-wal"),
            Join(d, "au-archive.db-shm"), Join(d, "config.json"),
            Join(Join(d, "backups"), "old.bak"), Join(d, "notes.txt") } }

\* what may lie in the archive root a
ArchiveFixtures(a) ==
    IF a = NoArchive THEN { {} }
    ELSE IF a = << "archive" >> THEN { { Join(a, ".previews") } }
    ELSE { { Join(Join(a, ".thumbnails"), "t1.jpg"), Join(a, ".previews"),
             Join(a, ".posters") } }

Init ==
    /\ platform \in Platforms
    /\ env \in Environments(platform)
    /\ archive_path \in ArchiveArgs(platform, env)
    /\ force \in BOOLEAN
    /\ db_only \in BOOLEAN
    /\ \E base \in BaseFixtures(Resolve(platform, get_config_dir(platform, env))),
          dev \in DevFixtures(Cwd(platform)),
          arc \in ArchiveFixtures(archive_path) :
          fs = WithParents(base \cup dev
                           \cup { Resolve(platform, q) : q \in arc })
    /\ fs0 = fs
    /\ pc = "main"
    /\ printed = {}
    /\ attempted = << >>
    /\ response = NoResponse
    /\ refused = {}
    /\ walk = DirOrder
    /\ ret = FALSE
    /\ report = "none"
    /\ target = NoTarget
    /\ snap = [fs |-> {}, failed |-> FALSE]

-----------------------------------------------------------------------------
(* the steps of a run *)

\* one call of a removal primitive at statement `here`
Call(here, order, kind, name, path) ==
    /\ pc = here
    /\ \E no \in NewRefusals(fs, platform, path) :
         LET o == Primitive(kind, fs, platform, path, refused \cup no, walk)
         IN  /\ fs' = o.fs
             /\ ret' = o.ret
             /\ report' = o.report
             /\ refused' = IF o.failed THEN refused \cup no ELSE refused
             /\ pc' = IF o.raised THEN "crashed" ELSE NextStep(order, here, o.fs)
    /\ attempted' = Append(attempted, [name |-> name, path |-> path])
    /\ UNCHANGED << platform, env, archive_path, force, db_only, fs0, printed,
                    response, walk, target, snap >>

\* `if wal_path.exists():` found nothing: the statement is passed over
Skip(here, order) ==
    /\ pc = here
    /\ pc' = NextStep(order, here, fs)
    /\ UNCHANGED << platform, env, archive_path, force, db_only, fs, fs0, printed,
                    attempted, response, refused, walk, ret, report, target, snap >>

\* main(): parse the command line and take the --db-only branch or not
Main ==
    /\ pc = "main"
    /\ pc' = IF db_only THEN "only_confirm" ELSE "plan"
    /\ UNCHANGED << platform, env, archive_path, force, db_only, fs, fs0, printed,
                    attempted, response, refused, walk, ret, report, target, snap >>

\* reset_database(): print what will be removed
PrintPlan ==
    /\ pc = "plan"
    /\ printed' = FullPlan
    /\ pc' = "confirm"
    /\ UNCHANGED << platform, env, archive_path, force, db_only, fs, fs0, attempted,
                    response, refused, walk, ret, report, target, snap >>

\* reset_database(): the confirmation gate
Confirm ==
    /\ pc = "confirm"
    /\ IF force
       THEN /\ pc' = NextStep(FullResetOrder, "start", fs)
            /\ UNCHANGED response
       ELSE \E r \in Responses :
              /\ response' = r
              /\ pc' = IF Affirmative(r) THEN NextStep(FullResetOrder, "start", fs)
                                         ELSE "aborted"
    /\ UNCHANGED << platform, env, archive_path, force, db_only, fs, fs0, printed,
                    attempted, refused, walk, ret, report, target, snap >>

RemoveDb == Call("rm_db", FullResetOrder, "file", "Database", db_path)

RemoveConfig == Call("rm_config", FullResetOrder, "file", "Config", config_path)

RemoveWal ==
    Call("rm_wal", FullResetOrder, "file", "Database -wal file",
         Sidecar(db_path, "-wal"))

RemoveShm ==
    Call("rm_shm", FullResetOrder, "file", "Database -shm file",
         Sidecar(db_path, "-shm"))

RemoveDataDir ==
    Call("rm_data_dir", FullResetOrder, "data_dir", "empty data directory", data_dir)

RemoveBackups ==
    Call("rm_backups", FullResetOrder, "dir", "Backups directory", backups_dir)

RemoveDevDb == Call("dev_db", FullResetOrder, "file", "Dev database", dev_db_path)

RemoveDevWal ==
    Call("dev_wal", FullResetOrder, "file", "Dev database -wal file",
         Join(dev_data_dir, "au-archive.db" \o "-wal"))

RemoveDevShm ==
    Call("dev_shm", FullResetOrder, "file", "Dev database -shm file",
         Join(dev_data_dir, "au-archive.db" \o "-shm"))

RemoveDevConfig ==
    Call("dev_config", FullResetOrder, "file", "Dev config",
         Join(dev_data_dir, "config.json"))

RemoveDevBackups ==
    Call("dev_backups", FullResetOrder, "dir", "Dev backups directory",
         Join(dev_data_dir, "backups"))

RemoveThumbnails ==
    Call("thumbnails", FullResetOrder, "dir", "Thumbnails directory",
         Join(archive_path, ".thumbnails"))

RemovePreviews ==
    Call("previews", FullResetOrder, "dir", "Previews directory",
         Join(archive_path, ".previews"))

RemovePosters ==
    Call("posters", FullResetOrder, "dir", "Posters directory",
         Join(archive_path, ".posters"))

(* the --db-only branch of main() *)

\* the prompt of the --db-only branch: the paths are printed inside `if not force`
OnlyConfirm ==
    /\ pc = "only_confirm"
    /\ IF force
       THEN /\ pc' = NextStep(DbOnlyOrder, "start", fs)
            /\ UNCHANGED << printed, response >>
       ELSE /\ printed' = DbOnlyPlan
            /\ \E r \in Responses :
                 /\ response' = r
                 /\ pc' = IF Affirmative(r) THEN NextStep(DbOnlyOrder, "start", fs)
                                            ELSE "aborted"
    /\ UNCHANGED << platform, env, archive_path, force, db_only, fs, fs0,
                    attempted, refused, walk, ret, report, target, snap >>

OnlyRemoveDb == Call("only_db", DbOnlyOrder, "file", "Database", db_path)

OnlyRemoveWal ==
    IF Exists(fs, platform, Sidecar(db_path, "-wal"))
    THEN Call("only_wal", DbOnlyOrder, "file", "Database -wal file",
              Sidecar(db_path, "-wal"))
    ELSE Skip("only_wal", DbOnlyOrder)

OnlyRemoveShm ==
    IF Exists(fs, platform, Sidecar(db_path, "-shm"))
    THEN Call("only_shm", DbOnlyOrder, "file", "Database -shm file",
              Sidecar(db_path, "-shm"))
    ELSE Skip("only_shm", DbOnlyOrder)

OnlyRemoveDevDb ==
    Call("only_dev_db", DbOnlyOrder, "file", "Dev database", dev_db_path)

OnlyRemoveDevWal ==
    Call("only_dev_wal", DbOnlyOrder, "file", "Dev database -wal file",
         Join(dev_data_dir, "au-archive.db" \o "-wal"))

OnlyRemoveDevShm ==
    Call("only_dev_shm", DbOnlyOrder, "file", "Dev database -shm file",
         Join(dev_data_dir, "au-archive.db" \o "-shm"))

Next ==
    \/ Main \/ PrintPlan \/ Confirm
    \/ RemoveDb \/ RemoveConfig \/ RemoveWal \/ RemoveShm \/ RemoveDataDir
    \/ RemoveBackups
    \/ RemoveDevDb \/ RemoveDevWal \/ RemoveDevShm \/ RemoveDevConfig
    \/ RemoveDevBackups
    \/ RemoveThumbnails \/ RemovePreviews \/ RemovePosters
    \/ OnlyConfirm
    \/ OnlyRemoveDb \/ OnlyRemoveWal \/ OnlyRemoveShm
    \/ OnlyRemoveDevDb \/ OnlyRemoveDevWal \/ OnlyRemoveDevShm

Spec == Init /\ [][Next]_vars

-----------------------------------------------------------------------------
(* the removal primitives on their own: one primitive called on one path,   *)
(* up to MaxCalls times in a row, with nothing else touching the filesystem *)

PrimBase == Resolve("Linux", get_config_dir("Linux", << >>))

\* paths handed to the primitive: files and directories, present and absent,
\* absolute and relative
PrimTargets ==
    { Join(Join(PrimBase, "data"), "au-archive.db"),
      Join(Join(PrimBase, "data"), "au-archive.db-shm"),
      Join(PrimBase, "config.json"),
      Join(PrimBase, "data"),
      Join(PrimBase, "backups"),
      PrimBase,
      << "packages" >>,
      << "archive" >>,
      << "packages", "desktop", "data", "config.json" >> }

PrimFixtures ==
    { WithParents(b \cup d) : b \in BaseFixtures(PrimBase),
                              d \in DevFixtures(Cwd("Linux")) }

InitPrim ==
    /\ platform = "Linux"
    /\ env = << >>
    /\ archive_path = NoArchive
    /\ force = TRUE
    /\ db_only = FALSE
    /\ fs \in PrimFixtures
    /\ fs0 = fs
    /\ pc = "prim"
    /\ printed = {}
    /\ attempted = << >>
    /\ response = NoResponse
    /\ target \in PrimTargets
    /\ refused \in { no \in SUBSET ({ q \in fs : q = Resolve(platform, target)
                                                   \/ Below(q, Resolve(platform, target)) }) :
                       Cardinality(no) <= MaxFailures }
    /\ walk \in Walks
    /\ ret = FALSE
    /\ report = "none"
    /\ snap = [fs |-> fs, failed |-> FALSE]

PrimCall(kind, name) ==
    /\ pc = "prim"
    /\ Len(attempted) < MaxCalls
    /\ attempted # << >> => attempted[1].name = name
    /\ LET o == Primitive(kind, fs, platform, target, refused, walk)
       IN  /\ fs' = o.fs
           /\ ret' = o.ret
           /\ report' = o.report
           /\ pc' = IF o.raised THEN "crashed" ELSE "prim"
    /\ snap' = [fs |-> fs, failed |-> report = "failed"]
    /\ attempted' = Append(attempted, [name |-> name, path |-> target])
    /\ UNCHANGED << platform, env, archive_path, force, db_only, fs0, printed,
                    response, refused, walk, target >>

PrimRemoveFile == PrimCall("file", "remove_file")

PrimRemoveDir == PrimCall("dir", "remove_dir")

NextPrim == PrimRemoveFile \/ PrimRemoveDir

SpecPrim == InitPrim /\ [][NextPrim]_vars

-----------------------------------------------------------------------------
(* Properties *)

Terminal == { "done", "aborted", "crashed" }

AbsData == Resolve(platform, data_dir)
AbsBase == Resolve(platform, config_dir)
DbNames == { "au-archive.db", "au-archive.db-wal", "au-archive.db-shm" }

\* the directories a run removes recursively
RecursiveTargets ==
    { Resolve(platform, backups_dir) }
    \cup (IF dev_detected THEN { Join(dev_data_dir, "backups") } ELSE {})
    \cup (IF archive_given
          THEN { Resolve(platform, Join(archive_path, n)) :
                   n \in { ".thumbnails", ".previews", ".posters" } }
          ELSE {})

\* answers that are neither y nor yes once trimmed and lower-cased
DecliningResponses ==
    { << >>, <<"n">>, <<"N", "o">>, <<" ">>, <<"y", "e">>, <<"y", " ", "e", "s">> }

\* C1: in both modes, without force, a response other than y / yes (trimmed,
\* lower-cased) ends the run with the filesystem exactly as it was at start and
\* with no removal attempted.
C1_DeclineChangesNothing ==
    (~force /\ response \in DecliningResponses)
        => (pc = "aborted" /\ fs = fs0 /\ attempted = << >>)

C1_Witness ==
    /\ pc = "aborted"
    /\ response = << >>
    /\ db_only
    /\ Resolve(platform, db_path) \in fs

\* C2: a --db-only run deletes nothing but the database file and its -wal and
\* -shm sidecars, primary and dev; every other entry (config, backups, the data
\* directory, dev config, dev backups, the archive subdirectories) is unchanged.
C2_DbOnlyFrame ==
    db_only =>
        /\ fs \subseteq fs0
        /\ \A q \in fs0 \ fs :
             /\ Name(q) \in DbNames
             /\ Parent(q) = AbsData \/ (dev_detected /\ Parent(q) = dev_data_dir)

C2_Witness ==
    /\ db_only
    /\ pc = "done"
    /\ archive_given
    /\ dev_detected
    /\ Resolve(platform, db_path) \in fs0 \ fs
    /\ Join(dev_data_dir, "au-archive.db-wal") \in fs0 \ fs
    /\ { Resolve(platform, config_path), Resolve(platform, backups_dir),
         Join(dev_data_dir, "config.json"),
         Resolve(platform, Join(archive_path, ".thumbnails")) } \subseteq fs

\* C3: in a full reset the data directory is removed only if it is empty once
\* the database and its sidecars have been processed: while an unrelated entry
\* (one that no step of the run targets), or a database or sidecar file whose
\* removal failed, is left in it, the directory and that entry stay; the
\* directory goes only when nothing is left in it.
C3_DataDirOnlyIfEmpty ==
    ~db_only =>
        LET d == AbsData
            dirs == RecursiveTargets
            unrelated(q) == /\ Name(q) \notin DbNames
                            /\ ~\E t \in dirs : q = t \/ Below(q, t)
        IN  /\ \A q \in Descendants(fs0, d) :
                 (unrelated(q) \/ (Name(q) \in DbNames /\ q \in refused))
                     => (q \in fs /\ d \in fs)
            /\ d \in fs0 \ fs => Descendants(fs, d) = {}

C3_Witness ==
    /\ ~db_only
    /\ pc = "done"
    /\ Join(AbsData, "notes.txt") \in fs
    /\ Resolve(platform, db_path) \in fs0 \ fs
    /\ AbsData \in fs

\* the fixture of the end-to-end case, under the config directory
C4_Fixture ==
    { AbsBase, Join(AbsBase, "config.json"), AbsData,
      Join(AbsData, "au-archive.db"), Join(AbsData, "au-archive.db-wal"),
      Join(AbsBase, "backups"), Join(Join(AbsBase, "backups"), "old.bak") }

\* C4: from config.json, data/au-archive.db, data/au-archive.db-wal and
\* backups/old.bak, a forced full reset in which no removal fails completes with
\* the database, its sidecars, the config file, the backups directory and the
\* data directory all absent.
C4_EndToEnd ==
    ( /\ pc = "done"
      /\ ~db_only
      /\ force
      /\ refused = {}
      /\ { q \in fs0 : q = AbsBase \/ Below(q, AbsBase) } = C4_Fixture )
        => { q \in fs : Below(q, AbsBase) } = {}

C4_Witness ==
    /\ pc = "done"
    /\ ~db_only
    /\ force
    /\ refused = {}
    /\ { q \in fs0 : q = AbsBase \/ Below(q, AbsBase) } = C4_Fixture
    /\ AbsBase \in fs

\* the calls a completed full reset has made, by the label each call passes
C5_Expected ==
    << "Database", "Config" >>
    \o (IF AbsData \in fs0
        THEN << "Database -wal file", "Database -shm file", "empty data directory" >>
        ELSE << >>)
    \o << "Backups directory" >>
    \o (IF dev_detected
        THEN << "Dev database", "Dev database -wal file", "Dev database -shm file",
                "Dev config", "Dev backups directory" >>
        ELSE << >>)
    \o (IF archive_given
        THEN << "Thumbnails directory", "Previews directory", "Posters directory" >>
        ELSE << >>)

\* C5: past the confirmation gate of a full reset no removal failure is fatal:
\* no exception leaves a primitive, a run whose latest removal failed can take
\* its next step, and a completed run has attempted every target of its
\* sequence.
C5_FailuresNotFatal ==
    /\ pc # "crashed"
    /\ (report = "failed" /\ ~db_only /\ pc \notin Terminal) => ENABLED Next
    /\ (pc = "done" /\ ~db_only)
         => [i \in 1..Len(attempted) |-> attempted[i].name] = C5_Expected

C5_Witness ==
    /\ pc = "done"
    /\ ~db_only
    /\ Cardinality(refused) = MaxFailures
    /\ Resolve(platform, db_path) \in refused
    /\ Len(attempted) = Len(FullResetOrder)

\* the place of a call in the order the claim gives
C6_Stage(name) ==
    CASE name = "Database" -> 1
      [] name = "Config" -> 2
      [] name \in { "Database -wal file", "Database -shm file" } -> 3
      [] name = "empty data directory" -> 4
      [] name = "Backups directory" -> 5
      [] name \in { "Dev database", "Dev database -wal file",
                    "Dev database -shm file", "Dev config",
                    "Dev backups directory" } -> 6
      [] name \in { "Thumbnails directory", "Previews directory",
                    "Posters directory" } -> 7

\* C6: a full reset makes its removals in the order database, config, -wal/-shm
\* sidecars, data directory, backups, dev equivalents, archive subdirectories:
\* the latest call never belongs before a call already made, and repeats none.
C6_FixedOrder ==
    ~db_only =>
        LET n == Len(attempted)
        IN  \A i \in 1..(n - 1) :
                /\ C6_Stage(attempted[i].name) <= C6_Stage(attempted[n].name)
                /\ attempted[i].name # attempted[n].name

C6_Witness ==
    /\ ~db_only
    /\ pc = "done"
    /\ Len(attempted) = Len(FullResetOrder)

\* C7: every path a run attempts to remove was printed in the plan beforehand,
\* with or without force.
C7_AttemptedWerePrinted ==
    \A i \in 1..Len(attempted) : attempted[i].path \in printed

\* C8: remove_file and remove_dir on an absent path report "not found", return
\* false, raise nothing and change nothing; a second call in a row on the same
\* path leaves the filesystem of the first call and returns false.
C8_Idempotent ==
    attempted # << >> =>
        /\ pc # "crashed"
        /\ Resolve(platform, target) \notin snap.fs
             => (report = "not found" /\ ret = FALSE /\ fs = snap.fs)
        /\ Len(attempted) >= 2 => (fs = snap.fs /\ ret = FALSE)

C8_Witness ==
    /\ Len(attempted) = 2
    /\ attempted[1].name = "remove_dir"
    /\ fs # fs0
    /\ report = "not found"
    /\ ~snap.failed

\* C9: every path handed to a removal primitive is absolute.
C9_TargetsAbsolute ==
    \A i \in 1..Len(attempted) : IsAbsolute(attempted[i].path)

\* the single entries a run may delete
C10_NamedTargets ==
    { Resolve(platform, db_path), Resolve(platform, Sidecar(db_path, "-wal")),
      Resolve(platform, Sidecar(db_path, "-shm")), Resolve(platform, config_path),
      AbsData }
    \cup (IF dev_detected
          THEN { Join(dev_data_dir, n) : n \in DbNames \cup { "config.json" } }
          ELSE {})

====
